---- MODULE Spec2Model ----
(***************************************************************************)
(* ColossalAI: MoE parallel context (colossalai/context/moe_context.py)    *)
(* and gradient accumulation wrappers                                      *)
(* (colossalai/utils/gradient_accumulation/_gradient_accumulation.py).     *)
(*                                                                         *)
(* Spec       one process driving MoeContext.setup / MoeContext.get_info   *)
(* SpecTopo   MoeInfo.__init__ as a function of (ep_size, dp_size, rank)   *)
(* SpecAccum  the three accumulation wrappers called in any order          *)
(* SpecTrain  the wrappers driven once per micro-batch by a training loop  *)
(* SpecLoader passes over a GradAccumDataloader                            *)
(* SpecEpoch  training epochs over a GradAccumDataloader                    *)
(* SpecRanks  the ranks of one job making the same get_info calls           *)
(* SpecSeq    Initializer_Sequence_DP.init_dist_group on every rank         *)
(***************************************************************************)
EXTENDS Integers, Sequences, FiniteSets, TLC

\* ------------------------------------------------------------------ bounds
MaxWorld == 8
MaxExperts == 8
MaxTP == 2
MaxPP == 2
MaxEp == 4
MaxDp == 4
MaxAccum == 4
MaxCalls == 9
MaxBatches == 12
MaxLen == 10
MaxPasses == 2
MaxRanks == 4
MaxNumExperts == 2
MaxProg == 2

VARIABLES
    \* the distributed environment the process was launched in
    dist_world_size,        \* dist.get_world_size()
    dist_rank,              \* dist.get_rank()
    tensor_parallel_size,   \* gpc.tensor_parallel_size
    pipeline_parallel_size, \* gpc.pipeline_parallel_size
    cuda_available,         \* torch.cuda.is_available()
    cfg_max_ep_size,        \* gpc.config['max_ep_size'], 0 when the key is absent
    \* MoeContext fields
    world_size, max_ep_size, min_dp_size, has_setup,
    information,            \* _info_dict: ep_size -> MoeInfo
    \* bookkeeping of the process
    num_groups,             \* dist.new_group calls issued so far by this process
    num_infos,              \* MoeInfo objects constructed so far
    calls,                  \* rank lists passed to dist.new_group by the last operation
    ret,                    \* what the last operation returned or raised
    first_ret,              \* ep_size -> first successful get_info return for that key
    \* SpecTopo: arguments and result of one MoeInfo construction
    topo_args, topo,
    \* gradient accumulation wrappers
    accumulate_size,        \* accumulate_size given to every wrapper
    is_torch_ddp,           \* GradAccumOptimizer.is_torch_ddp
    opt_accumulate_step,               \* GradAccumOptimizer.accumulate_step
    lr_accumulate_step,                \* GradAccumLrSchedulerByStep.accumulate_step
    gh_accumulate_step,                \* GradAccumGradientHandler.accumulate_step
    bwd_calls,              \* backward / backward_by_grad calls made on the wrapper
    optim_bwd,              \* backward calls received by the wrapped optimizer
    optim_steps,            \* step calls received by the wrapped optimizer
    bwd_since_step,         \* backward calls since the wrapped optimizer last stepped
    cycle_log,              \* no_sync flag of each backward since the wrapped step
    closed_log,             \* cycle_log of the cycle the last wrapped step closed
    lr_calls, lr_fired_at,  \* step calls on the lr wrapper; those that reached the scheduler
    gh_calls, gh_fired_at,  \* handle_gradient calls; those that reached the handler
    acc_ret,                \* the last wrapper call and what it did
    pc,                     \* SpecTrain: the next call of the training loop
    \* GradAccumDataloader
    dl_len,                 \* len(dataloader)
    dl_standard,            \* isinstance(dataloader, DataLoader)
    steps_per_epoch,
    cur_step,               \* _cur_step, -1 before the first __iter__
    src_pos,                \* elements taken from _dataiter
    yielded,                \* elements __next__ returned in the current pass
    dl_ret,                 \* outcome of the last __iter__ / __next__
    passes,                 \* __iter__ calls so far
    \* the ranks of one job, each with its own MoeContext
    rk_prog,                \* the get_info(num_experts) calls every rank makes, in order
    rank_state,             \* per rank: position, registry, MoeInfo under construction
    created,                \* rank lists of the new_group calls that completed
    \* Initializer_Sequence_DP
    seq_dp                  \* <<>>, or the one result of init_dist_group

envVars == <<dist_world_size, dist_rank, tensor_parallel_size, pipeline_parallel_size,
             cuda_available, cfg_max_ep_size>>
ctxVars == <<world_size, max_ep_size, min_dp_size, has_setup, information>>
logVars == <<num_groups, num_infos, calls, ret, first_ret>>
topoVars == <<topo_args, topo, seq_dp>>
wrapperVars == <<accumulate_size, is_torch_ddp, opt_accumulate_step, lr_accumulate_step,
                 gh_accumulate_step, bwd_calls, optim_bwd, optim_steps, bwd_since_step,
                 cycle_log, closed_log, lr_calls, lr_fired_at, gh_calls, gh_fired_at,
                 acc_ret>>
accVars == <<wrapperVars, pc>>
dlVars == <<dl_len, dl_standard, steps_per_epoch, cur_step, src_pos, yielded, dl_ret,
            passes>>
ranksVars == <<rk_prog, rank_state, created>>
moeVars == <<envVars, ctxVars, logVars, topoVars, ranksVars>>
vars == <<moeVars, accVars, dlVars>>

\* ----------------------------------------------------------- group handles
NoGroup == [kind |-> "None", id |-> 0]
\* gpc.get_group(ParallelMode.TENSOR)
TensorGroup == [kind |-> "TENSOR", id |-> 0]
\* gpc.get_group(ParallelMode.DATA)
DataGroup == [kind |-> "DATA", id |-> 0]
\* the handle returned by the n-th dist.new_group call of the process
NewGroup(n) == [kind |-> "new", id |-> n]

InList(x, s) == \E k \in 1..Len(s) : s[k] = x

\* mutant: only the tensor parallel size is tested
SanityFails_TensorOnly(tp, pp) == tp > 1

\* _check_sanity: raises when tensor or pipeline parallelism is on
SanityFails(tp, pp) == tp > 1 \/ pp > 1

\* ------------------------------------------------------ MoeInfo.__init__
\* ranks = [i * ep_size + j for j in range(ep_size)]
ExpertRanks(i, ep_size) == [jj \in 1..ep_size |-> i * ep_size + (jj - 1)]

\* mutant: the data groups are contiguous blocks of dp_size ranks
DataRanks_Contiguous(j, ep_size, dp_size) == [ii \in 1..dp_size |-> j * dp_size + (ii - 1)]

\* mutant: the data-group stride is dp_size instead of ep_size
DataRanks_StrideDp(j, ep_size, dp_size) == [ii \in 1..dp_size |-> (ii - 1) * dp_size + j]

\* ranks = [i * ep_size + j for i in range(dp_size)]
DataRanks(j, ep_size, dp_size) == [ii \in 1..dp_size |-> (ii - 1) * ep_size + j]

\* mutant: new_group is called only for the list that contains the caller
RECURSIVE ExpertLoop_MembersOnly(_, _, _, _, _)
ExpertLoop_MembersOnly(i, ep_size, dp_size, rk, acc) ==
    IF i >= dp_size THEN acc
    ELSE LET ranks == ExpertRanks(i, ep_size)
             group == NewGroup(acc.n + 1)
         IN ExpertLoop_MembersOnly(i + 1, ep_size, dp_size, rk,
                IF InList(rk, ranks)
                THEN [acc EXCEPT !.calls = Append(@, ranks), !.n = @ + 1,
                                 !.ep_group = group]
                ELSE acc)

\* for i in range(dp_size): group = dist.new_group(ranks); keep it if rank in ranks
RECURSIVE ExpertLoop(_, _, _, _, _)
ExpertLoop(i, ep_size, dp_size, rk, acc) ==
    IF i >= dp_size THEN acc
    ELSE LET ranks == ExpertRanks(i, ep_size)
             group == NewGroup(acc.n + 1)
         IN ExpertLoop(i + 1, ep_size, dp_size, rk,
                       [acc EXCEPT !.calls = Append(@, ranks),
                                   !.n = @ + 1,
                                   !.ep_group = IF InList(rk, ranks) THEN group ELSE @])

\* mutant: the data group kept is the last one created, member or not
RECURSIVE DataLoop_KeepLast(_, _, _, _, _)
DataLoop_KeepLast(j, ep_size, dp_size, rk, acc) ==
    IF j >= ep_size THEN acc
    ELSE LET ranks == DataRanks(j, ep_size, dp_size)
             group == NewGroup(acc.n + 1)
         IN DataLoop_KeepLast(j + 1, ep_size, dp_size, rk,
                              [acc EXCEPT !.calls = Append(@, ranks),
                                          !.n = @ + 1,
                                          !.dp_group = group])

\* for j in range(ep_size): group = dist.new_group(ranks); keep it if rank in ranks
RECURSIVE DataLoop(_, _, _, _, _)
DataLoop(j, ep_size, dp_size, rk, acc) ==
    IF j >= ep_size THEN acc
    ELSE LET ranks == DataRanks(j, ep_size, dp_size)
             group == NewGroup(acc.n + 1)
         IN DataLoop(j + 1, ep_size, dp_size, rk,
                     [acc EXCEPT !.calls = Append(@, ranks),
                                 !.n = @ + 1,
                                 !.dp_group = IF InList(rk, ranks) THEN group ELSE @])

\* mutant: the degenerate sizes go through the group-creation loops as well
MoeInfo_NoReuse(ep_size, dp_size, rk, tp, pp, n0) ==
    LET start == [err |-> "", ep_size |-> ep_size, dp_size |-> dp_size,
                  ep_group |-> NoGroup, dp_group |-> NoGroup,
                  calls |-> <<>>, n |-> n0]
    IN IF SanityFails(tp, pp)
       THEN [start EXCEPT !.err = "NotImplementedError"]
       ELSE DataLoop(0, ep_size, dp_size, rk,
                     ExpertLoop(0, ep_size, dp_size, rk, start))

\* MoeInfo(ep_size, dp_size) built by the process of rank rk that has issued
\* n0 new_group calls before; err is "" when the constructor returns
MoeInfo(ep_size, dp_size, rk, tp, pp, n0) ==
    LET start == [err |-> "", ep_size |-> ep_size, dp_size |-> dp_size,
                  ep_group |-> NoGroup, dp_group |-> NoGroup,
                  calls |-> <<>>, n |-> n0]
    IN IF SanityFails(tp, pp)
       THEN [start EXCEPT !.err = "NotImplementedError"]
       ELSE IF ep_size = 1
       THEN [start EXCEPT !.ep_group = TensorGroup, !.dp_group = DataGroup]
       ELSE IF dp_size = 1
       THEN [start EXCEPT !.ep_group = DataGroup, !.dp_group = TensorGroup]
       ELSE DataLoop(0, ep_size, dp_size, rk,
                     ExpertLoop(0, ep_size, dp_size, rk, start))

\* ------------------------------------------------------ MoeContext.get_info
\* mutant: dp_size is not multiplied by min_dp_size
Placement_NoMinDp(num_experts, mep, mdp) ==
    IF num_experts = 0 THEN [err |-> "ZeroDivisionError", gt_flag |-> TRUE, lt_flag |-> FALSE,
                             ep_size |-> 0, dp_size |-> 0, num_local_experts |-> 0]
    ELSE LET gt_flag == num_experts % mep = 0
             lt_flag == mep % num_experts = 0
             dp0 == IF gt_flag THEN 1 ELSE mep \div num_experts
             ep == IF dp0 = 0 THEN 0 ELSE mep \div dp0
             nle == IF lt_flag THEN 1 ELSE num_experts \div mep
         IN IF ~(gt_flag \/ lt_flag)
            THEN [err |-> "AssertionError", gt_flag |-> gt_flag, lt_flag |-> lt_flag,
                  ep_size |-> 0, dp_size |-> 0, num_local_experts |-> 0]
            ELSE [err |-> "", gt_flag |-> gt_flag, lt_flag |-> lt_flag,
                  ep_size |-> ep, dp_size |-> dp0, num_local_experts |-> nle]

\* mutant: the placement assertion is missing
Placement_NoAssert(num_experts, mep, mdp) ==
    IF num_experts = 0 THEN [err |-> "ZeroDivisionError", gt_flag |-> TRUE, lt_flag |-> FALSE,
                             ep_size |-> 0, dp_size |-> 0, num_local_experts |-> 0]
    ELSE LET gt_flag == num_experts % mep = 0
             lt_flag == mep % num_experts = 0
             dp0 == IF gt_flag THEN 1 ELSE mep \div num_experts
             ep == IF dp0 = 0 THEN mep ELSE mep \div dp0
             nle == IF lt_flag THEN 1 ELSE num_experts \div mep
         IN [err |-> "", gt_flag |-> gt_flag, lt_flag |-> lt_flag,
             ep_size |-> ep, dp_size |-> dp0 * mdp, num_local_experts |-> nle]

\* mutant: the assertion demands exactly one of the two flags
Placement_ExactlyOne(num_experts, mep, mdp) ==
    IF num_experts = 0 THEN [err |-> "ZeroDivisionError", gt_flag |-> TRUE, lt_flag |-> FALSE,
                             ep_size |-> 0, dp_size |-> 0, num_local_experts |-> 0]
    ELSE LET gt_flag == num_experts % mep = 0
             lt_flag == mep % num_experts = 0
             dp0 == IF gt_flag THEN 1 ELSE mep \div num_experts
             ep == IF dp0 = 0 THEN 0 ELSE mep \div dp0
             nle == IF lt_flag THEN 1 ELSE num_experts \div mep
         IN IF gt_flag = lt_flag
            THEN [err |-> "AssertionError", gt_flag |-> gt_flag, lt_flag |-> lt_flag,
                  ep_size |-> 0, dp_size |-> 0, num_local_experts |-> 0]
            ELSE [err |-> "", gt_flag |-> gt_flag, lt_flag |-> lt_flag,
                  ep_size |-> ep, dp_size |-> dp0 * mdp, num_local_experts |-> nle]

\* the sizes get_info computes from num_experts (lines 118-135); num_experts = 0
\* makes max_ep_size % num_experts raise ZeroDivisionError
Placement(num_experts, mep, mdp) ==
    IF num_experts = 0 THEN [err |-> "ZeroDivisionError", gt_flag |-> TRUE, lt_flag |-> FALSE,
                             ep_size |-> 0, dp_size |-> 0, num_local_experts |-> 0]
    ELSE LET gt_flag == num_experts % mep = 0
             lt_flag == mep % num_experts = 0
             dp0 == IF gt_flag THEN 1 ELSE mep \div num_experts
             ep == IF dp0 = 0 THEN 0 ELSE mep \div dp0
             nle == IF lt_flag THEN 1 ELSE num_experts \div mep
         IN IF ~(gt_flag \/ lt_flag)
            THEN [err |-> "AssertionError", gt_flag |-> gt_flag, lt_flag |-> lt_flag,
                  ep_size |-> 0, dp_size |-> 0, num_local_experts |-> 0]
            ELSE [err |-> "", gt_flag |-> gt_flag, lt_flag |-> lt_flag,
                  ep_size |-> ep, dp_size |-> dp0 * mdp, num_local_experts |-> nle]

\* mutant: the registry is never consulted
CacheMiss_Always(ep_size, info) == TRUE

\* if not (ep_size in self.information)
CacheMiss(ep_size, info) == ep_size \notin DOMAIN info

\* ret: the operation, its argument, the exception it raised ("" when it
\* returned), and for get_info the sizes it computed (num_local_experts, ep_size,
\* dp_size), the identity (oid) of the MoeInfo it returned and whether the
\* registry already held it (hit)
NoRet == [op |-> "none", num_experts |-> 0, err |-> "", num_local_experts |-> 0,
          ep_size |-> 0, dp_size |-> 0, oid |-> 0, hit |-> FALSE]

InfoEntry(m, oid) == [oid |-> oid, ep_size |-> m.ep_size, dp_size |-> m.dp_size,
                      ep_group |-> m.ep_group, dp_group |-> m.dp_group]

get_info(num_experts) ==
    LET p == Placement(num_experts, max_ep_size, min_dp_size)
    IN IF p.err # ""
       THEN /\ ret' = [NoRet EXCEPT !.op = "get_info", !.num_experts = num_experts,
                                    !.err = p.err]
            /\ calls' = <<>>
            /\ UNCHANGED <<information, num_groups, num_infos, first_ret>>
       ELSE IF CacheMiss(p.ep_size, information)
       THEN LET m == MoeInfo(p.ep_size, p.dp_size, dist_rank, tensor_parallel_size,
                             pipeline_parallel_size, num_groups)
            IN IF m.err # ""
               THEN /\ ret' = [NoRet EXCEPT !.op = "get_info",
                                            !.num_experts = num_experts, !.err = m.err]
                    /\ calls' = <<>>
                    /\ UNCHANGED <<information, num_groups, num_infos, first_ret>>
               ELSE /\ information' = (p.ep_size :> InfoEntry(m, num_infos + 1))
                                      @@ information
                    /\ num_infos' = num_infos + 1
                    /\ num_groups' = m.n
                    /\ calls' = m.calls
                    /\ ret' = [op |-> "get_info", num_experts |-> num_experts,
                               err |-> "", num_local_experts |-> p.num_local_experts,
                               ep_size |-> p.ep_size, dp_size |-> p.dp_size,
                               oid |-> num_infos + 1, hit |-> FALSE]
                    /\ first_ret' = IF p.ep_size \in DOMAIN first_ret THEN first_ret
                                    ELSE first_ret @@
                                         (p.ep_size :> [num_experts |-> num_experts,
                                                        oid |-> num_infos + 1])
       ELSE /\ ret' = [op |-> "get_info", num_experts |-> num_experts, err |-> "",
                       num_local_experts |-> p.num_local_experts,
                       ep_size |-> p.ep_size, dp_size |-> p.dp_size,
                       oid |-> information[p.ep_size].oid, hit |-> TRUE]
            /\ calls' = <<>>
            /\ first_ret' = IF p.ep_size \in DOMAIN first_ret THEN first_ret
                            ELSE first_ret @@
                                 (p.ep_size :> [num_experts |-> num_experts,
                                                oid |-> information[p.ep_size].oid])
            /\ UNCHANGED <<information, num_groups, num_infos>>

GetInfo ==
    \E num_experts \in 0..MaxExperts :
        /\ get_info(num_experts)
        /\ UNCHANGED <<envVars, world_size, max_ep_size, min_dp_size, has_setup, topoVars,
                       ranksVars, accVars, dlVars>>

\* --------------------------------------------------------- MoeContext.setup
SetupRet(e) == [NoRet EXCEPT !.op = "setup", !.err = e]

setup ==
    LET mep == IF cfg_max_ep_size = 0 THEN dist_world_size ELSE cfg_max_ep_size
    IN /\ calls' = <<>>
       /\ UNCHANGED <<information, num_groups, num_infos, first_ret>>
       /\ IF has_setup
          THEN /\ ret' = SetupRet("AssertionError")
               /\ UNCHANGED <<world_size, max_ep_size, min_dp_size, has_setup>>
          ELSE IF SanityFails(tensor_parallel_size, pipeline_parallel_size)
          THEN /\ ret' = SetupRet("NotImplementedError")
               /\ UNCHANGED <<world_size, max_ep_size, min_dp_size, has_setup>>
          ELSE IF ~cuda_available
          THEN /\ ret' = SetupRet("AssertionError")
               /\ UNCHANGED <<world_size, max_ep_size, min_dp_size, has_setup>>
          ELSE /\ world_size' = dist_world_size
               /\ max_ep_size' = mep
               /\ IF dist_world_size % mep # 0
                  THEN /\ ret' = SetupRet("AssertionError")
                       /\ UNCHANGED <<min_dp_size, has_setup>>
                  ELSE /\ min_dp_size' = dist_world_size \div mep
                       /\ has_setup' = TRUE
                       /\ ret' = SetupRet("")

Setup == setup /\ UNCHANGED <<envVars, topoVars, ranksVars, accVars, dlVars>>

\* ------------------------------------------------------------------- Spec
\* no accumulation wrapper and no dataloader wrapper exists
NoAccRet == [op |-> "none", forwarded |-> FALSE, no_sync |-> FALSE]

AccIdle ==
    /\ accumulate_size = 1 /\ is_torch_ddp = FALSE
    /\ opt_accumulate_step = 0 /\ lr_accumulate_step = 0 /\ gh_accumulate_step = 0
    /\ bwd_calls = 0 /\ optim_bwd = 0 /\ optim_steps = 0 /\ bwd_since_step = 0
    /\ cycle_log = <<>> /\ closed_log = <<>>
    /\ lr_calls = 0 /\ lr_fired_at = {} /\ gh_calls = 0 /\ gh_fired_at = {}
    /\ acc_ret = NoAccRet /\ pc = "none"

LoaderIdle ==
    /\ dl_len = 0 /\ dl_standard = TRUE /\ steps_per_epoch = 0 /\ cur_step = -1
    /\ src_pos = 0 /\ yielded = <<>> /\ dl_ret = "none" /\ passes = 0

TopoIdle == topo_args = [ep_size |-> 0, dp_size |-> 0] /\ topo = <<>> /\ seq_dp = <<>>

\* a single process: no other rank is modelled
RanksIdle == rk_prog = <<>> /\ rank_state = <<>> /\ created = <<>>

\* MoeContext.__init__ in a launched process
Init ==
    /\ dist_world_size \in 1..MaxWorld
    /\ dist_rank \in 0..(dist_world_size - 1)
    /\ tensor_parallel_size \in 1..MaxTP
    /\ pipeline_parallel_size \in 1..MaxPP
    /\ dist_world_size % (tensor_parallel_size * pipeline_parallel_size) = 0
    /\ cuda_available \in BOOLEAN
    /\ cfg_max_ep_size \in 0..MaxWorld
    /\ world_size = 1
    /\ max_ep_size = 1
    /\ min_dp_size = 1
    /\ has_setup = FALSE
    /\ information = <<>>
    /\ num_groups = 0
    /\ num_infos = 0
    /\ calls = <<>>
    /\ ret = NoRet
    /\ first_ret = <<>>
    /\ TopoIdle
    /\ RanksIdle
    /\ AccIdle
    /\ LoaderIdle

Next == Setup \/ GetInfo

Spec == Init /\ [][Next]_vars

\* --------------------------------------------------------------- SpecTopo
\* One MoeInfo(ep_size, dp_size) construction on a flat world of
\* ep_size * dp_size ranks, for every rank of that world.
CtxIdle ==
    /\ world_size = 1 /\ max_ep_size = 1 /\ min_dp_size = 1 /\ has_setup = FALSE
    /\ information = <<>> /\ cuda_available = TRUE /\ cfg_max_ep_size = 0
    /\ num_groups = 0 /\ num_infos = 0 /\ calls = <<>> /\ ret = NoRet
    /\ first_ret = <<>>

InitTopo ==
    /\ topo_args \in [ep_size : 1..MaxEp, dp_size : 1..MaxDp]
    /\ dist_world_size = topo_args.ep_size * topo_args.dp_size
    /\ dist_rank \in 0..(dist_world_size - 1)
    /\ tensor_parallel_size \in 1..MaxTP
    /\ pipeline_parallel_size \in 1..MaxPP
    /\ topo = <<>>
    /\ seq_dp = <<>>
    /\ CtxIdle
    /\ RanksIdle
    /\ AccIdle
    /\ LoaderIdle

Construct ==
    /\ topo = <<>>
    /\ topo' = <<MoeInfo(topo_args.ep_size, topo_args.dp_size, dist_rank,
                         tensor_parallel_size, pipeline_parallel_size, 0)>>
    /\ UNCHANGED <<envVars, ctxVars, logVars, topo_args, seq_dp, ranksVars, accVars, dlVars>>

NextTopo == Construct

SpecTopo == InitTopo /\ [][NextTopo]_vars


\* ------------------------------------------------ Initializer_Sequence_DP
\* self.dp_size = self.world_size // self.pipeline_parallel_size
SeqDpSize(ws, pp) == ws \div pp

\* mutant: the blocks start one rank late
SeqRanks_FromOne(i, dp_size) == [jj \in 1..dp_size |-> i * dp_size + jj]

\* ranks = [i * self.dp_size + j for j in range(self.dp_size)]
SeqRanks(i, dp_size) == [jj \in 1..dp_size |-> i * dp_size + (jj - 1)]

\* ranks.index(rank), for a rank the list holds
IndexOf(x, ranks) == (CHOOSE k \in 1..Len(ranks) :
                         ranks[k] = x /\ \A l \in 1..(k - 1) : ranks[l] # x) - 1

\* the fields init_dist_group starts from; -1 stands for None
SeqStart == [local_rank |-> -1, group_world_size |-> -1, process_group |-> NoGroup,
             ranks_in_group |-> <<>>, calls |-> <<>>, n |-> 0]

\* for i in range(self.num_group): group = dist.new_group(ranks); if
\* self.rank in ranks: keep local_rank, group_world_size, process_group, ranks
RECURSIVE SeqLoop(_, _, _, _, _)
SeqLoop(i, num_group, dp_size, rnk, acc) ==
    IF i >= num_group THEN acc
    ELSE LET ranks == SeqRanks(i, dp_size)
             group == NewGroup(acc.n + 1)
             called == [acc EXCEPT !.calls = Append(@, ranks), !.n = @ + 1]
         IN SeqLoop(i + 1, num_group, dp_size, rnk,
                    IF InList(rnk, ranks)
                    THEN [called EXCEPT !.local_rank = IndexOf(rnk, ranks),
                                        !.group_world_size = Len(ranks),
                                        !.process_group = group,
                                        !.ranks_in_group = ranks]
                    ELSE called)

\* Initializer_Sequence_DP(rank, world_size, ..., pipeline_parallel_size, ...)
\* .init_dist_group()
init_dist_group(rnk, ws, pp) == SeqLoop(0, pp, SeqDpSize(ws, pp), rnk, SeqStart)

\* ---------------------------------------------------------------- SpecSeq
\* One init_dist_group call on every rank of every world of up to MaxWorld
\* ranks, for every pipeline_parallel_size up to the world size.
InitSeq ==
    /\ dist_world_size \in 1..MaxWorld
    /\ dist_rank \in 0..(dist_world_size - 1)
    /\ tensor_parallel_size = 1
    /\ pipeline_parallel_size \in 1..dist_world_size
    /\ topo_args = [ep_size |-> 0, dp_size |-> 0] /\ topo = <<>>
    /\ seq_dp = <<>>
    /\ CtxIdle
    /\ RanksIdle
    /\ AccIdle
    /\ LoaderIdle

InitDistGroup ==
    /\ seq_dp = <<>>
    /\ seq_dp' = <<init_dist_group(dist_rank, dist_world_size, pipeline_parallel_size)>>
    /\ UNCHANGED <<envVars, ctxVars, logVars, topo_args, topo, ranksVars, accVars, dlVars>>

NextSeq == InitDistGroup

SpecSeq == InitSeq /\ [][NextSeq]_vars

\* ------------------------------------------------------ GradAccumOptimizer
AccFrame == UNCHANGED <<accumulate_size, is_torch_ddp>>
OptGhostFrame == UNCHANGED <<bwd_calls, optim_bwd, optim_steps, bwd_since_step,
                             cycle_log, closed_log>>
SchedFrame == UNCHANGED <<lr_accumulate_step, gh_accumulate_step, lr_calls, lr_fired_at,
                          gh_calls, gh_fired_at>>

\* conditional_context(ctx, enable): the context is entered iff enable
ConditionalContextEntered(enable) == enable

\* mutant: zero_grad is always forwarded
optimizer_zero_grad_Always ==
    /\ acc_ret' = [op |-> "zero_grad", forwarded |-> TRUE, no_sync |-> FALSE]
    /\ UNCHANGED opt_accumulate_step
    /\ OptGhostFrame /\ SchedFrame /\ AccFrame

\* zero_grad: forwarded to optim.zero_grad only when accumulate_step == 0
optimizer_zero_grad ==
    /\ acc_ret' = [op |-> "zero_grad", forwarded |-> (opt_accumulate_step = 0),
                   no_sync |-> FALSE]
    /\ UNCHANGED opt_accumulate_step
    /\ OptGhostFrame /\ SchedFrame /\ AccFrame

\* mutant: the comparison is <= , so the wrapped step is never reached
optimizer_step_LessEqual ==
    /\ acc_ret' = [op |-> "step", forwarded |-> FALSE, no_sync |-> FALSE]
    /\ UNCHANGED opt_accumulate_step
    /\ OptGhostFrame /\ SchedFrame /\ AccFrame

\* mutant: the wrapped step is reached as soon as one backward was made
optimizer_step_AfterOne ==
    /\ IF opt_accumulate_step < 1
       THEN /\ acc_ret' = [op |-> "step", forwarded |-> FALSE, no_sync |-> FALSE]
            /\ UNCHANGED <<opt_accumulate_step, optim_steps, bwd_since_step, cycle_log,
                           closed_log>>
       ELSE /\ opt_accumulate_step' = 0
            /\ optim_steps' = optim_steps + 1
            /\ bwd_since_step' = 0
            /\ closed_log' = cycle_log
            /\ cycle_log' = <<>>
            /\ acc_ret' = [op |-> "step", forwarded |-> TRUE, no_sync |-> FALSE]
    /\ UNCHANGED <<bwd_calls, optim_bwd>>
    /\ SchedFrame /\ AccFrame

\* step: returns None before accumulate_size is reached, else resets the counter
\* and calls optim.step
optimizer_step ==
    /\ IF opt_accumulate_step < accumulate_size
       THEN /\ acc_ret' = [op |-> "step", forwarded |-> FALSE, no_sync |-> FALSE]
            /\ UNCHANGED <<opt_accumulate_step, optim_steps, bwd_since_step, cycle_log,
                           closed_log>>
       ELSE /\ opt_accumulate_step' = 0
            /\ optim_steps' = optim_steps + 1
            /\ bwd_since_step' = 0
            /\ closed_log' = cycle_log
            /\ cycle_log' = <<>>
            /\ acc_ret' = [op |-> "step", forwarded |-> TRUE, no_sync |-> FALSE]
    /\ UNCHANGED <<bwd_calls, optim_bwd>>
    /\ SchedFrame /\ AccFrame

\* mutant: clip_grad_norm is always forwarded
optimizer_clip_grad_norm_Always ==
    /\ acc_ret' = [op |-> "clip_grad_norm", forwarded |-> TRUE, no_sync |-> FALSE]
    /\ UNCHANGED opt_accumulate_step
    /\ OptGhostFrame /\ SchedFrame /\ AccFrame

\* clip_grad_norm: forwarded only once accumulate_size is reached
optimizer_clip_grad_norm ==
    /\ acc_ret' = [op |-> "clip_grad_norm",
                   forwarded |-> ~(opt_accumulate_step < accumulate_size),
                   no_sync |-> FALSE]
    /\ UNCHANGED opt_accumulate_step
    /\ OptGhostFrame /\ SchedFrame /\ AccFrame

\* mutant: the comparison is <= , so the last micro-step is not synchronized
NoSync_LessEqual(step, size) == step <= size

\* no_sync = self.accumulate_step < self.accumulate_size (after the increment)
NoSync(step, size) == step < size

\* backward: counts the micro-step, then optim.backward(loss / accumulate_size),
\* inside model.no_sync() when the model is DDP and no_sync holds
optimizer_backward ==
    LET entered == IF is_torch_ddp
                   THEN ConditionalContextEntered(
                            NoSync(opt_accumulate_step + 1, accumulate_size))
                   ELSE FALSE
    IN /\ opt_accumulate_step' = opt_accumulate_step + 1
       /\ optim_bwd' = optim_bwd + 1
       /\ bwd_calls' = bwd_calls + 1
       /\ bwd_since_step' = bwd_since_step + 1
       /\ cycle_log' = Append(cycle_log, entered)
       /\ acc_ret' = [op |-> "backward", forwarded |-> TRUE, no_sync |-> entered]
       /\ UNCHANGED <<optim_steps, closed_log>>
       /\ SchedFrame /\ AccFrame

\* backward_by_grad: the same with an explicit `with self.model.no_sync()`
optimizer_backward_by_grad ==
    LET no_sync == is_torch_ddp /\ NoSync(opt_accumulate_step + 1, accumulate_size)
    IN /\ opt_accumulate_step' = opt_accumulate_step + 1
       /\ optim_bwd' = optim_bwd + 1
       /\ bwd_calls' = bwd_calls + 1
       /\ bwd_since_step' = bwd_since_step + 1
       /\ cycle_log' = Append(cycle_log, no_sync)
       /\ acc_ret' = [op |-> "backward_by_grad", forwarded |-> TRUE, no_sync |-> no_sync]
       /\ UNCHANGED <<optim_steps, closed_log>>
       /\ SchedFrame /\ AccFrame

\* mutant: the handler counter is not reset when the wrapped handler is called
handle_gradient_NoReset ==
    /\ gh_calls' = gh_calls + 1
    /\ gh_accumulate_step' = gh_accumulate_step + 1
    /\ IF gh_accumulate_step + 1 < accumulate_size
       THEN /\ UNCHANGED gh_fired_at
            /\ acc_ret' = [op |-> "handle_gradient", forwarded |-> FALSE,
                           no_sync |-> FALSE]
       ELSE /\ gh_fired_at' = gh_fired_at \cup {gh_calls + 1}
            /\ acc_ret' = [op |-> "handle_gradient", forwarded |-> TRUE,
                           no_sync |-> FALSE]
    /\ UNCHANGED <<opt_accumulate_step, lr_accumulate_step, lr_calls, lr_fired_at>>
    /\ OptGhostFrame /\ AccFrame

\* ----------------------------------------------- GradAccumLrSchedulerByStep
\* mutant: the counter is not reset when the scheduler is stepped
lr_scheduler_step_NoReset ==
    /\ lr_calls' = lr_calls + 1
    /\ lr_accumulate_step' = lr_accumulate_step + 1
    /\ IF lr_accumulate_step + 1 < accumulate_size
       THEN /\ UNCHANGED lr_fired_at
            /\ acc_ret' = [op |-> "lr_step", forwarded |-> FALSE, no_sync |-> FALSE]
       ELSE /\ lr_fired_at' = lr_fired_at \cup {lr_calls + 1}
            /\ acc_ret' = [op |-> "lr_step", forwarded |-> TRUE, no_sync |-> FALSE]
    /\ UNCHANGED <<opt_accumulate_step, gh_accumulate_step, gh_calls, gh_fired_at>>
    /\ OptGhostFrame /\ AccFrame

\* step: counts the call; at accumulate_size resets and calls lr_scheduler.step
lr_scheduler_step ==
    /\ lr_calls' = lr_calls + 1
    /\ IF lr_accumulate_step + 1 < accumulate_size
       THEN /\ lr_accumulate_step' = lr_accumulate_step + 1
            /\ UNCHANGED lr_fired_at
            /\ acc_ret' = [op |-> "lr_step", forwarded |-> FALSE, no_sync |-> FALSE]
       ELSE /\ lr_accumulate_step' = 0
            /\ lr_fired_at' = lr_fired_at \cup {lr_calls + 1}
            /\ acc_ret' = [op |-> "lr_step", forwarded |-> TRUE, no_sync |-> FALSE]
    /\ UNCHANGED <<opt_accumulate_step, gh_accumulate_step, gh_calls, gh_fired_at>>
    /\ OptGhostFrame /\ AccFrame

\* ------------------------------------------------- GradAccumGradientHandler
\* handle_gradient: counts the call; at accumulate_size resets and calls
\* grad_handler.handle_gradient
handle_gradient ==
    /\ gh_calls' = gh_calls + 1
    /\ IF gh_accumulate_step + 1 < accumulate_size
       THEN /\ gh_accumulate_step' = gh_accumulate_step + 1
            /\ UNCHANGED gh_fired_at
            /\ acc_ret' = [op |-> "handle_gradient", forwarded |-> FALSE,
                           no_sync |-> FALSE]
       ELSE /\ gh_accumulate_step' = 0
            /\ gh_fired_at' = gh_fired_at \cup {gh_calls + 1}
            /\ acc_ret' = [op |-> "handle_gradient", forwarded |-> TRUE,
                           no_sync |-> FALSE]
    /\ UNCHANGED <<opt_accumulate_step, lr_accumulate_step, lr_calls, lr_fired_at>>
    /\ OptGhostFrame /\ AccFrame

\* -------------------------------------------------------------- SpecAccum
\* The wrappers right after construction, called in any order.
MoeIdle ==
    /\ dist_world_size = 1 /\ dist_rank = 0
    /\ tensor_parallel_size = 1 /\ pipeline_parallel_size = 1
    /\ CtxIdle /\ TopoIdle /\ RanksIdle

InitAccum ==
    /\ accumulate_size \in 1..MaxAccum
    /\ is_torch_ddp \in BOOLEAN
    /\ opt_accumulate_step = 0 /\ lr_accumulate_step = 0 /\ gh_accumulate_step = 0
    /\ bwd_calls = 0 /\ optim_bwd = 0 /\ optim_steps = 0 /\ bwd_since_step = 0
    /\ cycle_log = <<>> /\ closed_log = <<>>
    /\ lr_calls = 0 /\ lr_fired_at = {} /\ gh_calls = 0 /\ gh_fired_at = {}
    /\ acc_ret = NoAccRet
    /\ pc = "none"
    /\ MoeIdle
    /\ LoaderIdle

Budget == bwd_calls + lr_calls + gh_calls < MaxCalls
Others == UNCHANGED <<moeVars, dlVars, pc>>

ZeroGrad == optimizer_zero_grad /\ Others
Step == optimizer_step /\ Others
ClipGradNorm == optimizer_clip_grad_norm /\ Others
Backward == Budget /\ optimizer_backward /\ Others
BackwardByGrad == Budget /\ optimizer_backward_by_grad /\ Others
LrStep == Budget /\ lr_scheduler_step /\ Others
HandleGradient == Budget /\ handle_gradient /\ Others

NextAccum ==
    \/ ZeroGrad
    \/ Step
    \/ ClipGradNorm
    \/ Backward
    \/ BackwardByGrad
    \/ LrStep
    \/ HandleGradient

SpecAccum == InitAccum /\ [][NextAccum]_vars

\* -------------------------------------------------------------- SpecTrain
\* The wrappers driven once per micro-batch: zero_grad, backward (or
\* backward_by_grad), handle_gradient, optimizer step, lr scheduler step.
InitTrain ==
    /\ accumulate_size \in 1..MaxAccum
    /\ is_torch_ddp \in BOOLEAN
    /\ opt_accumulate_step = 0 /\ lr_accumulate_step = 0 /\ gh_accumulate_step = 0
    /\ bwd_calls = 0 /\ optim_bwd = 0 /\ optim_steps = 0 /\ bwd_since_step = 0
    /\ cycle_log = <<>> /\ closed_log = <<>>
    /\ lr_calls = 0 /\ lr_fired_at = {} /\ gh_calls = 0 /\ gh_fired_at = {}
    /\ acc_ret = NoAccRet
    /\ pc = "zero_grad"
    /\ MoeIdle
    /\ LoaderIdle

Rest == UNCHANGED <<moeVars, dlVars>>

TrainZeroGrad ==
    /\ pc = "zero_grad" /\ bwd_calls < MaxBatches
    /\ optimizer_zero_grad /\ pc' = "backward" /\ Rest
TrainBackward ==
    /\ pc = "backward"
    /\ optimizer_backward /\ pc' = "handle_gradient" /\ Rest
TrainBackwardByGrad ==
    /\ pc = "backward"
    /\ optimizer_backward_by_grad /\ pc' = "handle_gradient" /\ Rest
TrainHandleGradient ==
    /\ pc = "handle_gradient"
    /\ handle_gradient /\ pc' = "step" /\ Rest
TrainStep ==
    /\ pc = "step"
    /\ optimizer_step /\ pc' = "lr_step" /\ Rest
TrainLrStep ==
    /\ pc = "lr_step"
    /\ lr_scheduler_step /\ pc' = "zero_grad" /\ Rest

NextTrain ==
    \/ TrainZeroGrad
    \/ TrainBackward
    \/ TrainBackwardByGrad
    \/ TrainHandleGradient
    \/ TrainStep
    \/ TrainLrStep

SpecTrain == InitTrain /\ [][NextTrain]_vars

\* ----------------------------------------------------- GradAccumDataloader
\* next(self._dataiter) on an iterator that has given pos of its len elements;
\* element k of the source is the number k
SourceNext(pos, len) ==
    IF pos < len THEN [stop |-> FALSE, item |-> pos + 1, pos |-> pos + 1]
    ELSE [stop |-> TRUE, item |-> 0, pos |-> pos]

\* while True: try: _ = next(self._dataiter) except StopIteration: break
RECURSIVE Drain(_, _)
Drain(pos, len) ==
    IF SourceNext(pos, len).stop THEN pos ELSE Drain(SourceNext(pos, len).pos, len)

\* len(dataloader) - len(dataloader) % accumulate_size
StepsPerEpoch(len, size) == len - (len % size)

\* __iter__: _cur_step = 0, _dataiter = iter(self.dataloader)
dataloader_iter ==
    /\ cur_step' = 0
    /\ src_pos' = 0
    /\ yielded' = <<>>
    /\ dl_ret' = "iter"
    /\ passes' = passes + 1
    /\ UNCHANGED <<dl_len, dl_standard, steps_per_epoch>>

\* __next__
dataloader_next ==
    /\ cur_step >= 0
    /\ IF cur_step < steps_per_epoch
       THEN LET consume_remain_data == ~dl_standard
                drained == IF cur_step + 1 = steps_per_epoch /\ consume_remain_data
                           THEN Drain(src_pos, dl_len) ELSE src_pos
                nxt == SourceNext(drained, dl_len)
            IN /\ cur_step' = cur_step + 1
               /\ src_pos' = nxt.pos
               /\ IF nxt.stop
                  THEN dl_ret' = "StopIteration" /\ UNCHANGED yielded
                  ELSE dl_ret' = "item" /\ yielded' = Append(yielded, nxt.item)
       ELSE /\ dl_ret' = "StopIteration"
            /\ UNCHANGED <<cur_step, src_pos, yielded>>
    /\ UNCHANGED <<dl_len, dl_standard, steps_per_epoch, passes>>

\* ------------------------------------------------------------- SpecLoader
InitLoader ==
    /\ dl_len \in 0..MaxLen
    /\ dl_standard \in BOOLEAN
    /\ accumulate_size \in 1..MaxAccum
    /\ steps_per_epoch = StepsPerEpoch(dl_len, accumulate_size)
    /\ cur_step = -1 /\ src_pos = 0 /\ yielded = <<>> /\ dl_ret = "none" /\ passes = 0
    /\ is_torch_ddp = FALSE
    /\ opt_accumulate_step = 0 /\ lr_accumulate_step = 0 /\ gh_accumulate_step = 0
    /\ bwd_calls = 0 /\ optim_bwd = 0 /\ optim_steps = 0 /\ bwd_since_step = 0
    /\ cycle_log = <<>> /\ closed_log = <<>>
    /\ lr_calls = 0 /\ lr_fired_at = {} /\ gh_calls = 0 /\ gh_fired_at = {}
    /\ acc_ret = NoAccRet
    /\ pc = "none"
    /\ MoeIdle

LoaderIter == passes < MaxPasses /\ dataloader_iter /\ UNCHANGED <<moeVars, accVars>>
LoaderNext == dataloader_next /\ UNCHANGED <<moeVars, accVars>>

NextLoader == LoaderIter \/ LoaderNext

SpecLoader == InitLoader /\ [][NextLoader]_vars

\* -------------------------------------------------------------- SpecEpoch
\* Epochs of a training loop over GradAccumDataloader: for each batch the
\* loader yields, zero_grad, backward, handle_gradient, optimizer step, lr
\* scheduler step; the wrappers share accumulate_size.
InitEpoch ==
    /\ dl_len \in 0..MaxLen
    /\ dl_standard \in BOOLEAN
    /\ accumulate_size \in 1..MaxAccum
    /\ steps_per_epoch = StepsPerEpoch(dl_len, accumulate_size)
    /\ cur_step = -1 /\ src_pos = 0 /\ yielded = <<>> /\ dl_ret = "none" /\ passes = 0
    /\ is_torch_ddp = FALSE
    /\ opt_accumulate_step = 0 /\ lr_accumulate_step = 0 /\ gh_accumulate_step = 0
    /\ bwd_calls = 0 /\ optim_bwd = 0 /\ optim_steps = 0 /\ bwd_since_step = 0
    /\ cycle_log = <<>> /\ closed_log = <<>>
    /\ lr_calls = 0 /\ lr_fired_at = {} /\ gh_calls = 0 /\ gh_fired_at = {}
    /\ acc_ret = NoAccRet
    /\ pc = "iter"
    /\ MoeIdle

\* for batch in loader: the loop header calls iter(loader) ...
EpochIter ==
    /\ pc \in {"iter", "done"} /\ passes < MaxPasses
    /\ dataloader_iter /\ pc' = "next"
    /\ UNCHANGED <<moeVars, wrapperVars>>
\* ... and next(loader) before every iteration; StopIteration ends the epoch
EpochNext ==
    /\ pc = "next"
    /\ dataloader_next
    /\ pc' = IF dl_ret' = "StopIteration" THEN "done" ELSE "zero_grad"
    /\ UNCHANGED <<moeVars, wrapperVars>>
EpochZeroGrad ==
    /\ pc = "zero_grad"
    /\ optimizer_zero_grad /\ pc' = "backward" /\ Rest
EpochBackward ==
    /\ pc = "backward"
    /\ optimizer_backward /\ pc' = "handle_gradient" /\ Rest
EpochHandleGradient ==
    /\ pc = "handle_gradient"
    /\ handle_gradient /\ pc' = "step" /\ Rest
EpochStep ==
    /\ pc = "step"
    /\ optimizer_step /\ pc' = "lr_step" /\ Rest
EpochLrStep ==
    /\ pc = "lr_step"
    /\ lr_scheduler_step /\ pc' = "next" /\ Rest

NextEpoch ==
    \/ EpochIter
    \/ EpochNext
    \/ EpochZeroGrad
    \/ EpochBackward
    \/ EpochHandleGradient
    \/ EpochStep
    \/ EpochLrStep

SpecEpoch == InitEpoch /\ [][NextEpoch]_vars

\* -------------------------------------------------------------- SpecRanks
\* The dist_world_size ranks of one job. Every rank has run setup from the
\* same configuration and makes the get_info calls of rk_prog in order, at its
\* own pace. dist.new_group blocks its caller until every rank of the job has
\* called it with the same rank list.
Ranks == 0..(dist_world_size - 1)

NoMoeInfo == [err |-> "", ep_size |-> 0, dp_size |-> 0, ep_group |-> NoGroup,
              dp_group |-> NoGroup, calls |-> <<>>, n |-> 0]

\* a rank before its first get_info: idx is the next call of rk_prog, n the
\* new_group calls that returned, pending the rank lists the MoeInfo under
\* construction (m) has still to pass to new_group, waiting whether the rank
\* is inside new_group, outcomes how each get_info ended
RankStart == [idx |-> 1, building |-> FALSE, waiting |-> FALSE, pending |-> <<>>,
              n |-> 0, m |-> NoMoeInfo, information |-> <<>>, outcomes |-> <<>>]

InitRanks ==
    /\ dist_world_size \in 1..MaxRanks
    /\ dist_rank = 0
    /\ tensor_parallel_size = 1 /\ pipeline_parallel_size = 1
    /\ cuda_available = TRUE
    /\ cfg_max_ep_size \in {0} \cup {d \in 1..(dist_world_size - 1) : dist_world_size % d = 0}
    /\ world_size = dist_world_size
    /\ max_ep_size = (IF cfg_max_ep_size = 0 THEN dist_world_size ELSE cfg_max_ep_size)
    /\ min_dp_size = dist_world_size \div max_ep_size
    /\ has_setup = TRUE
    /\ information = <<>>
    /\ num_groups = 0 /\ num_infos = 0 /\ calls = <<>> /\ ret = NoRet /\ first_ret = <<>>
    /\ TopoIdle
    /\ rk_prog \in UNION {[1..l -> 1..MaxNumExperts] : l \in 1..MaxProg}
    /\ rank_state = [r \in Ranks |-> RankStart]
    /\ created = <<>>
    /\ AccIdle
    /\ LoaderIdle

RanksFrame == UNCHANGED <<envVars, ctxVars, logVars, topoVars, rk_prog, accVars, dlVars>>

\* rank r enters get_info (lines 118-137): it raises, returns the registry
\* entry, or starts MoeInfo.__init__
RankGetInfo(r) ==
    /\ r \in DOMAIN rank_state
    /\ ~rank_state[r].building
    /\ rank_state[r].idx <= Len(rk_prog)
    /\ LET me == rank_state[r]
           p == Placement(rk_prog[me.idx], max_ep_size, min_dp_size)
           m == MoeInfo(p.ep_size, p.dp_size, r, tensor_parallel_size,
                        pipeline_parallel_size, me.n)
       IN rank_state' = [rank_state EXCEPT ![r] =
              IF p.err # ""
              THEN [me EXCEPT !.idx = @ + 1, !.outcomes = Append(@, p.err)]
              ELSE IF ~CacheMiss(p.ep_size, me.information)
              THEN [me EXCEPT !.idx = @ + 1, !.outcomes = Append(@, "hit")]
              ELSE IF m.err # ""
              THEN [me EXCEPT !.idx = @ + 1, !.outcomes = Append(@, m.err)]
              ELSE [me EXCEPT !.building = TRUE, !.m = m, !.pending = m.calls]]
    /\ UNCHANGED created
    /\ RanksFrame

\* rank r calls dist.new_group(ranks) (lines 46, 53) and blocks in it
RankNewGroup(r) ==
    /\ r \in DOMAIN rank_state
    /\ rank_state[r].building /\ ~rank_state[r].waiting
    /\ rank_state[r].pending # <<>>
    /\ rank_state' = [rank_state EXCEPT ![r].waiting = TRUE]
    /\ UNCHANGED created
    /\ RanksFrame

\* every rank is inside new_group with the same rank list: the group is
\* created and the call returns on every rank
Rendezvous ==
    /\ \A r \in Ranks :
           /\ rank_state[r].waiting
           /\ rank_state[r].pending[1] = rank_state[0].pending[1]
    /\ created' = Append(created, rank_state[0].pending[1])
    /\ rank_state' = [r \in Ranks |->
                         [rank_state[r] EXCEPT !.waiting = FALSE, !.pending = Tail(@),
                                               !.n = @ + 1]]
    /\ RanksFrame

\* MoeInfo.__init__ returns on rank r: the registry takes the entry (line 137)
\* and get_info returns it (line 139)
RankReturn(r) ==
    /\ r \in DOMAIN rank_state
    /\ rank_state[r].building /\ ~rank_state[r].waiting
    /\ rank_state[r].pending = <<>>
    /\ LET me == rank_state[r]
           oid == Cardinality(DOMAIN me.information) + 1
       IN rank_state' = [rank_state EXCEPT ![r] =
              [me EXCEPT !.building = FALSE, !.m = NoMoeInfo, !.idx = @ + 1,
                         !.information = (me.m.ep_size :> InfoEntry(me.m, oid)) @@ @,
                         !.outcomes = Append(@, "new")]]
    /\ UNCHANGED created
    /\ RanksFrame

NextRanks ==
    \/ \E r \in 0..(MaxRanks - 1) : RankGetInfo(r)
    \/ \E r \in 0..(MaxRanks - 1) : RankNewGroup(r)
    \/ \E r \in 0..(MaxRanks - 1) : RankReturn(r)
    \/ Rendezvous

\* the job does not halt while some rank can run or a rendezvous is complete
RanksFairness == WF_vars(NextRanks)

SpecRanks == InitRanks /\ [][NextRanks]_vars /\ RanksFairness

\* ------------------------------------------------------------------ claims
Range(s) == {s[k] : k \in 1..Len(s)}

\* a MoeInfo was built through the two group-creation loops
Enumerated ==
    /\ topo # <<>>
    /\ topo[1].err = ""
    /\ topo_args.ep_size > 1
    /\ topo_args.dp_size > 1

ExpertLists == SubSeq(topo[1].calls, 1, topo_args.dp_size)
DataLists == SubSeq(topo[1].calls, topo_args.dp_size + 1,
                    topo_args.dp_size + topo_args.ep_size)

\* the rank lists of ls are pairwise disjoint, without repeated ranks, and
\* cover exactly 0..w-1
Partitions(ls, w) ==
    /\ \A a \in 1..Len(ls) : Cardinality(Range(ls[a])) = Len(ls[a])
    /\ \A a, b \in 1..Len(ls) : a # b => Range(ls[a]) \cap Range(ls[b]) = {}
    /\ UNION {Range(ls[a]) : a \in 1..Len(ls)} = 0..(w - 1)
    /\ \A r \in 0..(w - 1) : Cardinality({a \in 1..Len(ls) : r \in Range(ls[a])}) = 1

\* C1: on a world of ep_size * dp_size ranks, the dp_size expert-group rank
\* lists and the ep_size data-group rank lists that MoeInfo passes to
\* new_group each partition 0..world_size-1: lists of one kind are pairwise
\* disjoint, their union is every rank, and every rank is in exactly one list
\* of each kind.
C1_GroupsPartitionRanks ==
    Enumerated =>
        /\ Len(topo[1].calls) = topo_args.dp_size + topo_args.ep_size
        /\ Partitions(ExpertLists, dist_world_size)
        /\ Partitions(DataLists, dist_world_size)
        /\ \A a \in 1..Len(ExpertLists) : Len(ExpertLists[a]) = topo_args.ep_size
        /\ \A a \in 1..Len(DataLists) : Len(DataLists[a]) = topo_args.dp_size

C1_Witness ==
    /\ Enumerated
    /\ topo_args.ep_size = 3
    /\ topo_args.dp_size = 2
    /\ dist_rank = 4
    /\ ExpertLists = << <<0, 1, 2>>, <<3, 4, 5>> >>
    /\ DataLists = << <<0, 3>>, <<1, 4>>, <<2, 5>> >>

\* C3: when MoeInfo is built with ep_size > 1 and dp_size > 1, the process
\* issues exactly dp_size + ep_size new_group calls: the expert lists for
\* i = 0..dp_size-1 ascending, then the data lists for j = 0..ep_size-1
\* ascending; the sequence is the same whatever the rank of the caller, and
\* dp_size + ep_size - 2 of the lists do not contain the caller.
C3_SameCallSequenceOnEveryRank ==
    Enumerated =>
        LET ep == topo_args.ep_size
            dp == topo_args.dp_size
            cs == topo[1].calls
        IN /\ Len(cs) = dp + ep
           /\ \A i \in 0..(dp - 1) : cs[i + 1] = [jj \in 1..ep |-> i * ep + (jj - 1)]
           /\ \A j \in 0..(ep - 1) : cs[dp + j + 1] = [ii \in 1..dp |-> (ii - 1) * ep + j]
           /\ \A r \in 0..(dist_world_size - 1) :
                  MoeInfo(ep, dp, r, tensor_parallel_size, pipeline_parallel_size, 0).calls
                      = cs
           /\ Cardinality({k \in 1..Len(cs) : ~InList(dist_rank, cs[k])}) = dp + ep - 2

C3_Witness ==
    /\ Enumerated
    /\ topo_args.ep_size = 2
    /\ topo_args.dp_size = 3
    /\ dist_rank = 5
    /\ topo[1].calls = << <<0, 1>>, <<2, 3>>, <<4, 5>>, <<0, 2, 4>>, <<1, 3, 5>> >>
    /\ topo[1].ep_group = NewGroup(3)
    /\ topo[1].dp_group = NewGroup(5)

\* the last operation was a get_info call that returned
GetInfoReturned == ret.op = "get_info" /\ ret.err = ""

\* C2: a get_info call whose computed ep_size was already returned by an
\* earlier get_info call of the same context returns the MoeInfo object that
\* the first such call returned, whatever its num_experts, and issues no
\* new_group call and constructs no MoeInfo.
C2_SameEpSizeSameMoeInfo ==
    [][(ret'.op = "get_info" /\ ret'.err = "" /\ ret'.ep_size \in DOMAIN first_ret)
        => /\ ret'.oid = first_ret[ret'.ep_size].oid
           /\ information'[ret'.ep_size].oid = ret'.oid
           /\ calls' = <<>>
           /\ num_groups' = num_groups
           /\ num_infos' = num_infos]_vars

C2_Witness ==
    /\ GetInfoReturned
    /\ has_setup
    /\ max_ep_size = 4
    /\ ret.num_experts = 8
    /\ ret.ep_size = 4
    /\ ret.hit
    /\ first_ret[4].num_experts = 4
    /\ ret.oid = first_ret[4].oid
    /\ information[4].ep_group.kind = "new"
    /\ calls = <<>>

\* C4: when get_info(num_experts) returns: if num_experts >= max_ep_size it
\* computed ep_size = max_ep_size, num_local_experts = num_experts / max_ep_size
\* (exactly) and dp_size = 1 * min_dp_size; otherwise ep_size = num_experts,
\* num_local_experts = 1 and dp_size = (max_ep_size / num_experts) * min_dp_size.
\* The returned MoeInfo has that ep_size, and that dp_size when this call
\* built it. (8, 4) gives 2, 4, min_dp_size; (2, 8) gives 1, 2, 4 * min_dp_size.
C4_PlacementSizes ==
    GetInfoReturned =>
        LET n == ret.num_experts
            m == max_ep_size
        IN /\ IF n >= m
              THEN /\ ret.ep_size = m
                   /\ ret.num_local_experts * m = n
                   /\ ret.dp_size = 1 * min_dp_size
              ELSE /\ ret.ep_size = n
                   /\ ret.num_local_experts = 1
                   /\ ret.dp_size * n = m * min_dp_size
           /\ information[ret.ep_size].ep_size = ret.ep_size
           /\ ~ret.hit => information[ret.ep_size].dp_size = ret.dp_size
           /\ (n = 8 /\ m = 4) =>
                  /\ ret.num_local_experts = 2
                  /\ ret.ep_size = 4
                  /\ ret.dp_size = min_dp_size
           /\ (n = 2 /\ m = 8) =>
                  /\ ret.num_local_experts = 1
                  /\ ret.ep_size = 2
                  /\ ret.dp_size = 4 * min_dp_size

C4_Witness ==
    /\ GetInfoReturned
    /\ has_setup
    /\ dist_world_size = 8
    /\ max_ep_size = 4
    /\ min_dp_size = 2
    /\ ret.num_experts = 8
    /\ ret.num_local_experts = 2
    /\ ret.ep_size = 4
    /\ ret.dp_size = 2
    /\ ~ret.hit
    /\ information[4].dp_size = 2

\* neither num_experts % max_ep_size == 0 nor max_ep_size % num_experts == 0
NeitherDivides(n, m) == n % m # 0 /\ m % n # 0
BothDivide(n, m) == n % m = 0 /\ m % n = 0

\* C9: a get_info(num_experts) call for which neither
\* num_experts % max_ep_size == 0 nor max_ep_size % num_experts == 0 holds
\* raises the placement AssertionError, issues no new_group call, constructs no
\* MoeInfo and leaves the registry as it was.
C9_PlacementErrorNoEffect ==
    [][(ret'.op = "get_info" /\ ret'.num_experts >= 1
            /\ NeitherDivides(ret'.num_experts, max_ep_size))
        => /\ ret'.err = "AssertionError"
           /\ calls' = <<>>
           /\ num_groups' = num_groups
           /\ num_infos' = num_infos
           /\ information' = information]_vars

C9_Witness ==
    /\ ret.op = "get_info"
    /\ ret.num_experts = 3
    /\ max_ep_size = 8
    /\ has_setup
    /\ ret.err = "AssertionError"
    /\ calls = <<>>
    /\ DOMAIN information = {2, 4}
    /\ num_groups = 12

\* C10 as stated: get_info returns only when exactly one of the two
\* divisibility conditions holds, and raises the placement error both when
\* neither holds and when both hold.
C10_ExactlyOneRequired ==
    (ret.op = "get_info" /\ ret.num_experts >= 1) =>
        LET gt == ret.num_experts % max_ep_size = 0
            lt == max_ep_size % ret.num_experts = 0
        IN /\ ret.err = "" => (gt # lt)
           /\ (gt = lt) => ret.err = "AssertionError"

\* C10 amended: for num_experts >= 1, get_info raises the placement
\* AssertionError exactly when neither divisibility condition holds; when at
\* least one holds, both included (num_experts = max_ep_size), it passes the
\* check and returns, unless MoeInfo's sanity check raises NotImplementedError
\* (tensor or pipeline parallel size > 1).
C10_AtLeastOneRequired ==
    (ret.op = "get_info" /\ ret.num_experts >= 1) =>
        /\ ret.err = "AssertionError"
              <=> NeitherDivides(ret.num_experts, max_ep_size)
        /\ ret.err \in {"", "AssertionError", "NotImplementedError"}
        /\ ret.err = "NotImplementedError"
              => SanityFails(tensor_parallel_size, pipeline_parallel_size)
        /\ (BothDivide(ret.num_experts, max_ep_size)
              /\ ~SanityFails(tensor_parallel_size, pipeline_parallel_size))
              => ret.err = ""

C10_Witness ==
    /\ GetInfoReturned
    /\ has_setup
    /\ max_ep_size = 4
    /\ ret.num_experts = 4
    /\ BothDivide(ret.num_experts, max_ep_size)
    /\ ret.num_local_experts = 1
    /\ ret.ep_size = 4

\* the calls c of 1..k with c a multiple of accumulate_size
Multiples(k) == {c \in 1..k : c % accumulate_size = 0}

\* C5: after k calls of GradAccumLrSchedulerByStep.step (resp.
\* GradAccumGradientHandler.handle_gradient) since construction, the wrapped
\* scheduler (resp. handler) has been called floor(k / accumulate_size) times,
\* exactly on the calls accumulate_size, 2 * accumulate_size, ..., and
\* accumulate_step is k mod accumulate_size.
C5_FiresEveryNthCall ==
    /\ lr_fired_at = Multiples(lr_calls)
    /\ Cardinality(lr_fired_at) = lr_calls \div accumulate_size
    /\ lr_accumulate_step = lr_calls % accumulate_size
    /\ gh_fired_at = Multiples(gh_calls)
    /\ Cardinality(gh_fired_at) = gh_calls \div accumulate_size
    /\ gh_accumulate_step = gh_calls % accumulate_size
    /\ acc_ret.op = "lr_step" => (acc_ret.forwarded <=> lr_calls \in lr_fired_at)
    /\ acc_ret.op = "handle_gradient" => (acc_ret.forwarded <=> gh_calls \in gh_fired_at)

C5_Witness ==
    /\ accumulate_size = 4
    /\ lr_calls = 4
    /\ lr_fired_at = {4}
    /\ lr_accumulate_step = 0
    /\ gh_calls = 3
    /\ gh_fired_at = {}
    /\ gh_accumulate_step = 3

\* 1, 2, ..., n
FirstN(n) == [k \in 1..n |-> k]

\* C6: GradAccumDataloader reports length floor(L / N) * N, and when a pass
\* over it ends with StopIteration it has yielded exactly the first
\* floor(L / N) * N elements of the source, in order, for standard and
\* non-standard sources alike.
C6_YieldsEffectiveLength ==
    /\ steps_per_epoch = (dl_len \div accumulate_size) * accumulate_size
    /\ dl_ret = "StopIteration" =>
           yielded = FirstN((dl_len \div accumulate_size) * accumulate_size)

\* the no_sync flags of a cycle of n micro-steps in which all but the
\* accumulate_size-th entered the scope
AllButLast(n) == [k \in 1..n |-> k < accumulate_size]

\* C7: with a DistributedDataParallel model and the wrappers driven once per
\* micro-batch, backward / backward_by_grad enters model.no_sync() on
\* micro-steps 1..accumulate_size-1 of a cycle and not on micro-step
\* accumulate_size; every cycle the wrapped step closes holds accumulate_size
\* backward calls of which exactly one, the last, synchronized.
C7_NoSyncAllButLast ==
    is_torch_ddp =>
        /\ acc_ret.op \in {"backward", "backward_by_grad"}
               => (acc_ret.no_sync <=> bwd_since_step < accumulate_size)
        /\ Len(cycle_log) = bwd_since_step
        /\ bwd_since_step <= accumulate_size
        /\ cycle_log = AllButLast(Len(cycle_log))
        /\ optim_steps > 0 =>
               /\ closed_log = AllButLast(accumulate_size)
               /\ Cardinality({k \in 1..Len(closed_log) : ~closed_log[k]}) = 1
        /\ optim_steps * accumulate_size + bwd_since_step = bwd_calls

C7_Witness ==
    /\ is_torch_ddp
    /\ accumulate_size = 4
    /\ optim_steps = 2
    /\ acc_ret.op = "step"
    /\ acc_ret.forwarded
    /\ closed_log = <<TRUE, TRUE, TRUE, FALSE>>
    /\ bwd_calls = 8

\* C8: GradAccumOptimizer.zero_grad reaches the wrapped optimizer exactly when
\* accumulate_step == 0, and then no backward has been made since the wrapped
\* optimizer last stepped (or since construction): gradients are never cleared
\* between a backward and the wrapped step that closes its cycle.
C8_ZeroGradOnlyAtCycleStart ==
    acc_ret.op = "zero_grad" =>
        /\ acc_ret.forwarded <=> opt_accumulate_step = 0
        /\ acc_ret.forwarded => bwd_since_step = 0
        /\ bwd_since_step > 0 => ~acc_ret.forwarded

C8_Witness ==
    /\ acc_ret.op = "zero_grad"
    /\ ~acc_ret.forwarded
    /\ accumulate_size = 3
    /\ optim_steps = 1
    /\ bwd_since_step = 2
    /\ opt_accumulate_step = 2

\* a MoeInfo was built (the constructor returned)
Built == topo # <<>> /\ topo[1].err = ""

\* C11 as stated: whenever ep_size == 1 the expert group is the existing
\* tensor-parallel group and the data group the existing data-parallel group,
\* whenever dp_size == 1 the expert group is the existing data-parallel group
\* and the data group the existing tensor-parallel group, and no new_group
\* call is issued in either case.
C11_DegenerateReuse ==
    Built =>
        /\ topo_args.ep_size = 1 =>
               /\ topo[1].ep_group = TensorGroup
               /\ topo[1].dp_group = DataGroup
               /\ topo[1].calls = <<>>
        /\ topo_args.dp_size = 1 =>
               /\ topo[1].ep_group = DataGroup
               /\ topo[1].dp_group = TensorGroup
               /\ topo[1].calls = <<>>

\* C11 amended: the ep_size == 1 test comes first, so the dp_size == 1 rule
\* applies only when ep_size > 1; with ep_size == dp_size == 1 the expert
\* group is the tensor-parallel group. No new_group call is issued, on any
\* rank, when ep_size == 1 or dp_size == 1.
C11_DegenerateReuseEpFirst ==
    Built =>
        /\ topo_args.ep_size = 1 =>
               /\ topo[1].ep_group = TensorGroup
               /\ topo[1].dp_group = DataGroup
        /\ (topo_args.dp_size = 1 /\ topo_args.ep_size > 1) =>
               /\ topo[1].ep_group = DataGroup
               /\ topo[1].dp_group = TensorGroup
        /\ (topo_args.ep_size = 1 \/ topo_args.dp_size = 1) =>
               /\ topo[1].calls = <<>>
               /\ topo[1].n = 0
               /\ \A r \in 0..(dist_world_size - 1) :
                      MoeInfo(topo_args.ep_size, topo_args.dp_size, r,
                              tensor_parallel_size, pipeline_parallel_size, 0).calls = <<>>

C11_Witness ==
    /\ Built
    /\ topo_args.ep_size = 4
    /\ topo_args.dp_size = 1
    /\ dist_rank = 3
    /\ topo[1].ep_group = DataGroup
    /\ topo[1].dp_group = TensorGroup
    /\ topo[1].calls = <<>>

\* C12: with tensor_parallel_size > 1 or pipeline_parallel_size > 1, setup
\* raises NotImplementedError, and so does every get_info call that reaches the
\* MoeInfo construction (its placement check passed and the registry has no
\* entry for its ep_size); no new_group call is ever issued and the registry
\* stays empty.
C12_SanityFailsBeforeGroups ==
    (tensor_parallel_size > 1 \/ pipeline_parallel_size > 1) =>
        /\ ret.op = "setup" => ret.err = "NotImplementedError"
        /\ (ret.op = "get_info" /\ ret.num_experts >= 1
                /\ ~NeitherDivides(ret.num_experts, max_ep_size))
               => ret.err = "NotImplementedError"
        /\ ~has_setup
        /\ calls = <<>>
        /\ num_groups = 0
        /\ num_infos = 0
        /\ information = <<>>

C12_Witness ==
    /\ pipeline_parallel_size = 2
    /\ tensor_parallel_size = 1
    /\ dist_world_size = 8
    /\ ret.op = "get_info"
    /\ ret.num_experts = 4
    /\ ret.err = "NotImplementedError"
    /\ information = <<>>
    /\ num_groups = 0

\* C13: a get_info step constructs a MoeInfo only for an ep_size the registry
\* does not hold yet (at most one per key), and every entry the registry holds
\* stays, with the same object, ep_size, dp_size, ep_group and dp_group.
C13_RegistryWriteOnce ==
    [][/\ \A k \in DOMAIN information :
              k \in DOMAIN information' /\ information'[k] = information[k]
       /\ num_infos' # num_infos =>
              /\ num_infos' = num_infos + 1
              /\ ret'.ep_size \notin DOMAIN information
              /\ DOMAIN information' = DOMAIN information \cup {ret'.ep_size}
       /\ num_infos' = Cardinality(DOMAIN information')]_vars

C13_Witness ==
    /\ has_setup
    /\ max_ep_size = 8
    /\ DOMAIN information = {1, 2, 4, 8}
    /\ num_infos = 4
    /\ ret.op = "get_info"
    /\ ret.hit
    /\ ret.ep_size = 2
    /\ information[2].oid < information[8].oid

\* C18: an expert-group rank list and a data-group rank list enumerated by
\* one MoeInfo have at most one rank in common; on the dp_size x ep_size
\* row-major grid list i and list j share exactly the rank i * ep_size + j.
C18_ExpertDataMeetOnce ==
    Enumerated =>
        \A a \in 1..Len(ExpertLists), b \in 1..Len(DataLists) :
            /\ Cardinality(Range(ExpertLists[a]) \cap Range(DataLists[b])) <= 1
            /\ Range(ExpertLists[a]) \cap Range(DataLists[b])
                   = {(a - 1) * topo_args.ep_size + (b - 1)}

C18_Witness ==
    /\ Enumerated
    /\ topo_args.ep_size = 4
    /\ topo_args.dp_size = 3
    /\ Range(ExpertLists[2]) \cap Range(DataLists[3]) = {6}

\* the micro-batches whose optimizer step call has been made
Stepped == IF pc \in {"handle_gradient", "step"} THEN bwd_calls - 1 ELSE bwd_calls

\* C14: in the loop zero_grad, backward, handle_gradient, optimizer step, lr
\* step with one accumulate_size N, the wrapped handle_gradient, the wrapped
\* optimizer step and the wrapped lr-scheduler step have each fired once per
\* completed macro-batch, and each fires on exactly the micro-batches N, 2N, ...
C14_AllThreeFireOnNthMicroBatch ==
    /\ gh_calls = (IF pc = "handle_gradient" THEN bwd_calls - 1 ELSE bwd_calls)
    /\ lr_calls = (IF pc \in {"handle_gradient", "step", "lr_step"}
                   THEN bwd_calls - 1 ELSE bwd_calls)
    /\ gh_fired_at = Multiples(gh_calls)
    /\ lr_fired_at = Multiples(lr_calls)
    /\ optim_steps = Stepped \div accumulate_size
    /\ Cardinality(gh_fired_at) = gh_calls \div accumulate_size
    /\ Cardinality(lr_fired_at) = lr_calls \div accumulate_size
    /\ acc_ret.op \in {"handle_gradient", "step", "lr_step"}
           => (acc_ret.forwarded <=> bwd_calls % accumulate_size = 0)
    /\ pc = "zero_grad" =>
           /\ optim_steps = Cardinality(gh_fired_at)
           /\ optim_steps = Cardinality(lr_fired_at)

C14_Witness ==
    /\ accumulate_size = 3
    /\ bwd_calls = 6
    /\ pc = "zero_grad"
    /\ acc_ret.op = "lr_step"
    /\ acc_ret.forwarded
    /\ optim_steps = 2
    /\ gh_fired_at = {3, 6}
    /\ lr_fired_at = {3, 6}

\* C19 as stated: after every completed operation of any call sequence each
\* of the three wrappers has 0 <= accumulate_step < accumulate_size.
C19_CounterInRange ==
    /\ 0 <= opt_accumulate_step /\ opt_accumulate_step < accumulate_size
    /\ 0 <= lr_accumulate_step /\ lr_accumulate_step < accumulate_size
    /\ 0 <= gh_accumulate_step /\ gh_accumulate_step < accumulate_size

\* C19 amended: the scheduler and handler counters stay in
\* [0, accumulate_size); the optimizer counter is the number of backward calls
\* since the wrapped step last fired, which is not bounded by accumulate_size,
\* and it is below accumulate_size right after every step call.
C19_CounterResetByStep ==
    /\ 0 <= lr_accumulate_step /\ lr_accumulate_step < accumulate_size
    /\ 0 <= gh_accumulate_step /\ gh_accumulate_step < accumulate_size
    /\ opt_accumulate_step = bwd_since_step
    /\ opt_accumulate_step >= 0
    /\ acc_ret.op = "step" =>
           /\ opt_accumulate_step < accumulate_size
           /\ acc_ret.forwarded => opt_accumulate_step = 0

C19_Witness ==
    /\ accumulate_size = 2
    /\ acc_ret.op = "backward"
    /\ opt_accumulate_step = 3
    /\ optim_steps = 1
    /\ gh_accumulate_step = 1
    /\ lr_accumulate_step = 0
    /\ lr_calls = 2

\* C20: when a pass over a non-standard source ends, the source iterator is
\* exhausted and the wrapper has yielded every one of the first
\* floor(L / N) * N elements, having discarded only the L mod N trailing ones.
C20_DrainsOnlyTheRemainder ==
    (~dl_standard /\ dl_ret = "StopIteration") =>
        /\ src_pos = dl_len
        /\ Range(yielded) = 1..((dl_len \div accumulate_size) * accumulate_size)
        /\ dl_len - Len(yielded) = dl_len % accumulate_size

\* C15: in the first epoch over a source of L batches, the wrapped optimizer
\* step fires on exactly the yielded batches N, 2N, ..., and when the epoch
\* ends it has fired L // N times, for standard and non-standard sources.
C15_StepsPerEpoch ==
    passes = 1 =>
        /\ acc_ret.op = "step"
               => (acc_ret.forwarded <=> Len(yielded) % accumulate_size = 0)
        /\ pc = "done" => optim_steps = dl_len \div accumulate_size

\* every rank has come out of every get_info call of the program
AllReturned ==
    \A r \in DOMAIN rank_state :
        /\ ~rank_state[r].building
        /\ rank_state[r].idx = Len(rk_prog) + 1

\* C16: when every rank makes the same get_info calls from the same
\* configuration, every rank eventually comes out of every call: no rank stays
\* blocked in group creation.
C16_NoRankBlocksForever == <>AllReturned

C16_Witness ==
    /\ AllReturned
    /\ dist_world_size = 4
    /\ rk_prog = <<2, 1>>
    /\ created = <<<<0, 1>>, <<2, 3>>, <<0, 2>>, <<1, 3>>>>
    /\ \A r \in DOMAIN rank_state : rank_state[r].outcomes = <<"new", "new">>

\* the ranks of the group a handle returned by new_group stands for
GroupRanks(h) == Range(created[h.id])

\* ranks r and s agree on the groups g_r and g_s they retained
Agree(r, g_r, s, g_s) ==
    /\ g_r.kind = g_s.kind
    /\ g_r.kind # "None"
    /\ g_r.kind = "new" =>
           /\ g_r.id \in 1..Len(created) /\ g_s.id \in 1..Len(created)
           /\ r \in GroupRanks(g_r)
           /\ s \in GroupRanks(g_r) <=> r \in GroupRanks(g_s)
           /\ s \in GroupRanks(g_r) => g_r = g_s

\* C17: for every ep_size key two ranks r and s both hold, the expert-group
\* (resp. data-group) handle r retained is the one created for the rank list
\* containing r, s is in that list iff r is in the list of the one s
\* retained, and then the two handles come from the same new_group call.
C17_RanksAgreeOnMembership ==
    \A r \in DOMAIN rank_state, s \in DOMAIN rank_state :
        \A k \in DOMAIN rank_state[r].information \cap DOMAIN rank_state[s].information :
            LET e_r == rank_state[r].information[k]
                e_s == rank_state[s].information[k]
            IN /\ Agree(r, e_r.ep_group, s, e_s.ep_group)
               /\ Agree(r, e_r.dp_group, s, e_s.dp_group)
               /\ e_r.ep_group.kind = "new" =>
                      /\ created[e_r.ep_group.id] = ExpertRanks(r \div k, k)
                      /\ created[e_r.dp_group.id] = DataRanks(r % k, k, e_r.dp_size)

C17_Witness ==
    /\ AllReturned
    /\ dist_world_size = 4
    /\ max_ep_size = 2
    /\ rk_prog = <<2, 2>>
    /\ rank_state[0].information[2].ep_group = NewGroup(1)
    /\ rank_state[1].information[2].ep_group = NewGroup(1)
    /\ rank_state[3].information[2].ep_group = NewGroup(2)
    /\ rank_state[0].information[2].dp_group = NewGroup(3)
    /\ rank_state[3].information[2].dp_group = NewGroup(4)
    /\ rank_state[1].information[2].dp_group = NewGroup(4)

\* C21: when a pass over GradAccumDataloader has ended, with the five wrapper
\* calls made once per yielded batch, the accumulate_step of the optimizer,
\* the gradient handler and the lr scheduler is 0, and the first zero_grad of
\* the next pass is forwarded.
C21_NoCycleSpansTwoPasses ==
    /\ pc = "done" =>
           /\ opt_accumulate_step = 0
           /\ gh_accumulate_step = 0
           /\ lr_accumulate_step = 0
    /\ (pc = "backward" /\ Len(yielded) = 1) => acc_ret.forwarded

\* C22: every registry entry stored under key k has ep_size = k and
\* ep_size * dp_size equal to the context's current world_size.
C22_EntriesFitWorldSize ==
    \A k \in DOMAIN information :
        /\ information[k].ep_size = k
        /\ information[k].ep_size * information[k].dp_size = world_size

\* C23: every backward / backward_by_grad call reaches the wrapped optimizer
\* exactly once; the wrapped step is invoked only when at least
\* accumulate_size backward calls were made since its previous invocation (or
\* since construction); a step call made earlier returns None and changes
\* nothing.
C23_StepOnlyAfterFullCycle ==
    [][/\ optim_bwd' - optim_bwd = bwd_calls' - bwd_calls
       /\ acc_ret'.op \in {"backward", "backward_by_grad"} /\ bwd_calls' # bwd_calls
              => (bwd_calls' = bwd_calls + 1 /\ acc_ret'.forwarded)
       /\ optim_steps' # optim_steps =>
              /\ optim_steps' = optim_steps + 1
              /\ bwd_since_step >= accumulate_size
              /\ acc_ret'.op = "step" /\ acc_ret'.forwarded
       /\ (acc_ret'.op = "step" /\ ~acc_ret'.forwarded) =>
              /\ bwd_since_step < accumulate_size
              /\ UNCHANGED <<opt_accumulate_step, optim_steps, optim_bwd, bwd_calls,
                             bwd_since_step, cycle_log, closed_log, accumulate_size,
                             is_torch_ddp, lr_accumulate_step, gh_accumulate_step>>]_vars

C23_Witness ==
    /\ accumulate_size = 3
    /\ acc_ret.op = "step"
    /\ ~acc_ret.forwarded
    /\ optim_steps = 1
    /\ bwd_calls = 5
    /\ optim_bwd = 5
    /\ opt_accumulate_step = 2

\* C24: clip_grad_norm reaches the wrapped optimizer exactly when
\* accumulate_step >= accumulate_size, that is when at least accumulate_size
\* backward calls were made since the wrapped step last fired, and it never
\* changes accumulate_step.
C24_ClipOnlyOnFullCycle ==
    [][acc_ret'.op = "clip_grad_norm" =>
           /\ acc_ret'.forwarded <=> opt_accumulate_step >= accumulate_size
           /\ acc_ret'.forwarded <=> bwd_since_step >= accumulate_size
           /\ UNCHANGED <<opt_accumulate_step, optim_steps, optim_bwd, bwd_calls,
                          bwd_since_step>>]_vars

C24_Witness ==
    /\ accumulate_size = 3
    /\ acc_ret.op = "clip_grad_norm"
    /\ acc_ret.forwarded
    /\ opt_accumulate_step = 3
    /\ optim_steps = 1
    /\ bwd_calls = 6

\* C25: setup succeeds at most once, and a setup call that fails leaves
\* world_size, max_ep_size, min_dp_size and has_setup as they were.
C25_FailedSetupNoEffect ==
    [][/\ has_setup => has_setup'
       /\ (ret'.op = "setup" /\ ret'.err = "" /\ ret' # ret) => (~has_setup /\ has_setup')
       /\ (ret'.op = "setup" /\ ret'.err # "") =>
              UNCHANGED <<world_size, max_ep_size, min_dp_size, has_setup>>]_vars

\* C26: when pipeline_parallel_size divides world_size, a rank issues
\* pipeline_parallel_size new_group calls, the i-th over the block
\* [i * dp_size, (i + 1) * dp_size) with dp_size = world_size //
\* pipeline_parallel_size, the same on every rank; the blocks partition
\* [0, world_size), and the rank returns the block that contains it, the
\* handle of that call, local_rank = rank - i * dp_size and
\* group_world_size = dp_size.
C26_SequenceDpBlocks ==
    (seq_dp # <<>> /\ dist_world_size % pipeline_parallel_size = 0) =>
        LET res == seq_dp[1]
            dp_size == dist_world_size \div pipeline_parallel_size
            i == dist_rank \div dp_size
        IN /\ Len(res.calls) = pipeline_parallel_size
           /\ res.n = pipeline_parallel_size
           /\ \A c \in 1..Len(res.calls) :
                  /\ Len(res.calls[c]) = dp_size
                  /\ \A jj \in 1..dp_size : res.calls[c][jj] = (c - 1) * dp_size + (jj - 1)
           /\ \A r \in 0..(dist_world_size - 1) :
                  /\ init_dist_group(r, dist_world_size, pipeline_parallel_size).calls
                         = res.calls
                  /\ Cardinality({c \in 1..Len(res.calls) : r \in Range(res.calls[c])}) = 1
           /\ UNION {Range(res.calls[c]) : c \in 1..Len(res.calls)}
                  = 0..(dist_world_size - 1)
           /\ res.ranks_in_group = res.calls[i + 1]
           /\ dist_rank \in Range(res.ranks_in_group)
           /\ res.process_group = NewGroup(i + 1)
           /\ res.local_rank = dist_rank - i * dp_size
           /\ res.group_world_size = dp_size

C26_Witness ==
    /\ seq_dp # <<>>
    /\ dist_world_size = 8
    /\ pipeline_parallel_size = 4
    /\ dist_rank = 5
    /\ seq_dp[1].calls = <<<<0, 1>>, <<2, 3>>, <<4, 5>>, <<6, 7>>>>
    /\ seq_dp[1].ranks_in_group = <<4, 5>>
    /\ seq_dp[1].local_rank = 1
    /\ seq_dp[1].group_world_size = 2
    /\ seq_dp[1].process_group = NewGroup(3)

====
